---- MODULE Spec2Model ----
(***************************************************************************)
(* Model of the F1 LED circuit simulation (src/src/main.rs).               *)
(*                                                                         *)
(* Three parts of the program are modelled, each with its own              *)
(* specification over the same variables:                                  *)
(*   SpecFrames  generate_update_frames, the pure frame builder            *)
(*   SpecFetch   fetch_data, the per-driver request loop, and main's use   *)
(*               of its result                                             *)
(*   SpecPlay    PlotApp: reset, update_race, update_led_states and the    *)
(*               START / STOP / speed handlers of App::update              *)
(*                                                                         *)
(* Numbers: coordinates are integers (the f64 values of the telemetry and  *)
(* of read_coordinates are integral), so distances are compared through    *)
(* their squares, which orders them exactly as the square roots do.  Time  *)
(* is counted in whole milliseconds; race_time and frame_duration are in   *)
(* milliseconds too, so  next_index * frame_duration <= race_time  is the  *)
(* exact comparison of the two real numbers.                               *)
(***************************************************************************)
EXTENDS Integers, Sequences, FiniteSets, TLC

VARIABLES
    \* generate_update_frames
    raw_data,        \* the samples handed to generate_update_frames
    coordinates,     \* the LED coordinate list handed to it
    out_frames,      \* its return value
    build_pc,        \* "input" before the call, "done" after it
    \* fetch_data and main
    driver_idx,      \* position of the for loop in driver_numbers (1-based)
    all_data,        \* the accumulated samples
    resp,            \* outcome of the request handled last
    body,            \* the decoded body of the response handled last
    fetch_pc,        \* "loop", "returned_ok", "returned_err"
    main_pc,         \* "fetching", "running", "exited_err"
    \* PlotApp
    frames, now, start_time, race_time, race_started, current_index,
    led_states, speed,
    panicked,        \* an out-of-range index into frames aborted the program
    op,              \* the operation that acted last
    prev_index       \* current_index before that operation

frameVars == <<raw_data, coordinates, out_frames, build_pc>>
fetchVars == <<driver_idx, all_data, resp, body, fetch_pc, main_pc>>
playVars  == <<frames, now, start_time, race_time, race_started,
               current_index, led_states, speed, panicked, op, prev_index>>
vars == <<frameVars, fetchVars, playVars>>

Min(a, b) == IF a <= b THEN a ELSE b
Max(a, b) == IF a >= b THEN a ELSE b

(***************************************************************************)
(* Data                                                                    *)
(***************************************************************************)

\* UpdateFrame.drivers is [Option<DriverData>; 20]
K == 20

\* Option<DriverData>: None is the empty sequence, Some(d) is <<d>>
None == << >>
Some(d) == <<d>>

LocationData(x, y, date, driver_number) ==
    [x |-> x, y |-> y, date |-> date, driver_number |-> driver_number]

DriverData(driver_number, led_num) ==
    [driver_number |-> driver_number, led_num |-> led_num]

LedCoordinate(x, y, n) == [x_led |-> x, y_led |-> y, led_number |-> n]

\* the coordinate table of read_coordinates
read_coordinates == <<
    [x_led |-> 6413, y_led |-> 33, led_number |-> 1],
    [x_led |-> 6007, y_led |-> 197, led_number |-> 2],
    [x_led |-> 5652, y_led |-> 444, led_number |-> 3],
    [x_led |-> 5431, y_led |-> 822, led_number |-> 4],
    [x_led |-> 5727, y_led |-> 1143, led_number |-> 5],
    [x_led |-> 6141, y_led |-> 1268, led_number |-> 6],
    [x_led |-> 6567, y_led |-> 1355, led_number |-> 7],
    [x_led |-> 6975, y_led |-> 1482, led_number |-> 8],
    [x_led |-> 7328, y_led |-> 1738, led_number |-> 9],
    [x_led |-> 7369, y_led |-> 2173, led_number |-> 10],
    [x_led |-> 7024, y_led |-> 2448, led_number |-> 11],
    [x_led |-> 6592, y_led |-> 2505, led_number |-> 12],
    [x_led |-> 6159, y_led |-> 2530, led_number |-> 13],
    [x_led |-> 5725, y_led |-> 2525, led_number |-> 14],
    [x_led |-> 5288, y_led |-> 2489, led_number |-> 15],
    [x_led |-> 4857, y_led |-> 2434, led_number |-> 16],
    [x_led |-> 4429, y_led |-> 2356, led_number |-> 17],
    [x_led |-> 4004, y_led |-> 2249, led_number |-> 18],
    [x_led |-> 3592, y_led |-> 2122, led_number |-> 19],
    [x_led |-> 3181, y_led |-> 1977, led_number |-> 20],
    [x_led |-> 2779, y_led |-> 1812, led_number |-> 21],
    [x_led |-> 2387, y_led |-> 1624, led_number |-> 22],
    [x_led |-> 1988, y_led |-> 1453, led_number |-> 23],
    [x_led |-> 1703, y_led |-> 1779, led_number |-> 24],
    [x_led |-> 1271, y_led |-> 1738, led_number |-> 25],
    [x_led |-> 1189, y_led |-> 1314, led_number |-> 26],
    [x_led |-> 1257, y_led |-> 884, led_number |-> 27],
    [x_led |-> 1333, y_led |-> 454, led_number |-> 28],
    [x_led |-> 1409, y_led |-> 25, led_number |-> 29],
    [x_led |-> 1485, y_led |-> -405, led_number |-> 30],
    [x_led |-> 1558, y_led |-> -835, led_number |-> 31],
    [x_led |-> 1537, y_led |-> -1267, led_number |-> 32],
    [x_led |-> 1208, y_led |-> -1555, led_number |-> 33],
    [x_led |-> 779, y_led |-> -1606, led_number |-> 34],
    [x_led |-> 344, y_led |-> -1604, led_number |-> 35],
    [x_led |-> -88, y_led |-> -1539, led_number |-> 36],
    [x_led |-> -482, y_led |-> -1346, led_number |-> 37],
    [x_led |-> -785, y_led |-> -1038, led_number |-> 38],
    [x_led |-> -966, y_led |-> -644, led_number |-> 39],
    [x_led |-> -1015, y_led |-> -206, led_number |-> 40],
    [x_led |-> -923, y_led |-> 231, led_number |-> 41],
    [x_led |-> -762, y_led |-> 650, led_number |-> 42],
    [x_led |-> -591, y_led |-> 1078, led_number |-> 43],
    [x_led |-> -423, y_led |-> 1497, led_number |-> 44],
    [x_led |-> -254, y_led |-> 1915, led_number |-> 45],
    [x_led |-> -86, y_led |-> 2329, led_number |-> 46],
    [x_led |-> 83, y_led |-> 2744, led_number |-> 47],
    [x_led |-> 251, y_led |-> 3158, led_number |-> 48],
    [x_led |-> 416, y_led |-> 3574, led_number |-> 49],
    [x_led |-> 588, y_led |-> 3990, led_number |-> 50],
    [x_led |-> 755, y_led |-> 4396, led_number |-> 51],
    [x_led |-> 920, y_led |-> 4804, led_number |-> 52],
    [x_led |-> 1086, y_led |-> 5212, led_number |-> 53],
    [x_led |-> 1250, y_led |-> 5615, led_number |-> 54],
    [x_led |-> 1418, y_led |-> 6017, led_number |-> 55],
    [x_led |-> 1583, y_led |-> 6419, led_number |-> 56],
    [x_led |-> 1909, y_led |-> 6702, led_number |-> 57],
    [x_led |-> 2306, y_led |-> 6512, led_number |-> 58],
    [x_led |-> 2319, y_led |-> 6071, led_number |-> 59],
    [x_led |-> 2152, y_led |-> 5660, led_number |-> 60],
    [x_led |-> 1988, y_led |-> 5255, led_number |-> 61],
    [x_led |-> 1853, y_led |-> 4836, led_number |-> 62],
    [x_led |-> 1784, y_led |-> 4407, led_number |-> 63],
    [x_led |-> 1779, y_led |-> 3971, led_number |-> 64],
    [x_led |-> 1605, y_led |-> 3569, led_number |-> 65],
    [x_led |-> 1211, y_led |-> 3375, led_number |-> 66],
    [x_led |-> 811, y_led |-> 3188, led_number |-> 67],
    [x_led |-> 710, y_led |-> 2755, led_number |-> 68],
    [x_led |-> 1116, y_led |-> 2595, led_number |-> 69],
    [x_led |-> 1529, y_led |-> 2717, led_number |-> 70],
    [x_led |-> 1947, y_led |-> 2848, led_number |-> 71],
    [x_led |-> 2371, y_led |-> 2946, led_number |-> 72],
    [x_led |-> 2806, y_led |-> 2989, led_number |-> 73],
    [x_led |-> 3239, y_led |-> 2946, led_number |-> 74],
    [x_led |-> 3665, y_led |-> 2864, led_number |-> 75],
    [x_led |-> 4092, y_led |-> 2791, led_number |-> 76],
    [x_led |-> 4523, y_led |-> 2772, led_number |-> 77],
    [x_led |-> 4945, y_led |-> 2886, led_number |-> 78],
    [x_led |-> 5331, y_led |-> 3087, led_number |-> 79],
    [x_led |-> 5703, y_led |-> 3315, led_number |-> 80],
    [x_led |-> 6105, y_led |-> 3484, led_number |-> 81],
    [x_led |-> 6538, y_led |-> 3545, led_number |-> 82],
    [x_led |-> 6969, y_led |-> 3536, led_number |-> 83],
    [x_led |-> 7402, y_led |-> 3511, led_number |-> 84],
    [x_led |-> 7831, y_led |-> 3476, led_number |-> 85],
    [x_led |-> 8241, y_led |-> 3335, led_number |-> 86],
    [x_led |-> 8549, y_led |-> 3025, led_number |-> 87],
    [x_led |-> 8703, y_led |-> 2612, led_number |-> 88],
    [x_led |-> 8662, y_led |-> 2173, led_number |-> 89],
    [x_led |-> 8451, y_led |-> 1785, led_number |-> 90],
    [x_led |-> 8203, y_led |-> 1426, led_number |-> 91],
    [x_led |-> 7973, y_led |-> 1053, led_number |-> 92],
    [x_led |-> 7777, y_led |-> 664, led_number |-> 93],
    [x_led |-> 7581, y_led |-> 275, led_number |-> 94],
    [x_led |-> 7274, y_led |-> -35, led_number |-> 95],
    [x_led |-> 6839, y_led |-> -46, led_number |-> 96]
>>

\* the roster built in main (name and team play no part in the model)
driver_info == <<
    [number |-> 1, color |-> <<30, 65, 255>>],
    [number |-> 2, color |-> <<0, 82, 255>>],
    [number |-> 4, color |-> <<255, 135, 0>>],
    [number |-> 10, color |-> <<2, 144, 240>>],
    [number |-> 11, color |-> <<30, 65, 255>>],
    [number |-> 14, color |-> <<0, 110, 120>>],
    [number |-> 16, color |-> <<220, 0, 0>>],
    [number |-> 18, color |-> <<0, 110, 120>>],
    [number |-> 20, color |-> <<160, 207, 205>>],
    [number |-> 22, color |-> <<60, 130, 200>>],
    [number |-> 23, color |-> <<0, 82, 255>>],
    [number |-> 24, color |-> <<165, 160, 155>>],
    [number |-> 27, color |-> <<160, 207, 205>>],
    [number |-> 31, color |-> <<2, 144, 240>>],
    [number |-> 40, color |-> <<60, 130, 200>>],
    [number |-> 44, color |-> <<0, 210, 190>>],
    [number |-> 55, color |-> <<220, 0, 0>>],
    [number |-> 63, color |-> <<0, 210, 190>>],
    [number |-> 77, color |-> <<165, 160, 155>>],
    [number |-> 81, color |-> <<255, 135, 0>>]
>>

WHITE == <<255, 255, 255>>

\* the request order of fetch_data
driver_numbers ==
    <<1, 2, 4, 10, 11, 14, 16, 18, 20, 22, 23, 24, 27, 31, 40, 44, 55, 63, 77, 81>>

\* let update_rate_ms = 100 in main
update_rate_ms == 100

\* egui::Slider::new(&mut self.speed, 1..=5)
SpeedMin == 1
SpeedMax == 5

(***************************************************************************)
(* generate_update_frames                                                  *)
(***************************************************************************)

\* (data.x - coord.x_led)^2 + (data.y - coord.y_led)^2, the square of the
\* distance the closure computes
DistanceSq(data, coord) ==
    (data.x - coord.x_led) * (data.x - coord.x_led)
      + (data.y - coord.y_led) * (data.y - coord.y_led)

\* Iterator::min_by reduces the elements with one comparison: of the element
\* held and a later one, the later one is taken only when it compares strictly
\* less (Ordering::Less), so of several minimal elements the first is returned.
\* TakesNext is that comparison of the two distances (partial_cmp of the two
\* square roots; no distance is NaN here).
TakesNextOnTie(dist_next, dist_held) == dist_next <= dist_held

TakesNext(dist_next, dist_held) == dist_next < dist_held

\* the index min_by returns for coords[lo..hi].  The reduction keeps the
\* earlier of two elements unless the later is strictly less, whatever the
\* grouping, so it is evaluated by halves to keep the nesting shallow.
RECURSIVE MinByRange(_, _, _, _)
MinByRange(data, coords, lo, hi) ==
    IF lo = hi THEN lo
    ELSE LET mid == (lo + hi) \div 2
             held == MinByRange(data, coords, lo, mid)
             next == MinByRange(data, coords, mid + 1, hi)
         IN IF TakesNext(DistanceSq(data, coords[next]),
                         DistanceSq(data, coords[held]))
            THEN next ELSE held

\* index of nearest_coord in coordinates (coordinates is not empty)
NearestIndex(data, coords) == MinByRange(data, coords, 1, Len(coords))

EmptyFrame == [s \in 1..K |-> None]

Occupied(frame) == {s \in 1..K : frame[s] # None}

\* for slot in frame.drivers.iter_mut() { if slot.is_none() { *slot = ..; break } }
InsertDriver(frame, driver_data) ==
    IF \E s \in 1..K : frame[s] = None
    THEN LET first == CHOOSE s \in 1..K :
                        /\ frame[s] = None
                        /\ \A t \in 1..(s - 1) : frame[t] # None
         IN [frame EXCEPT ![first] = Some(driver_data)]
    ELSE frame

\* frame.drivers.iter().all(|slot| slot.is_some())
IsFull(frame) == \A s \in 1..K : frame[s] # None

\* DriverData { driver_number: data.driver_number, led_num: nearest_coord.led_number }
ResolveSample(data, coords) ==
    DriverData(data.driver_number, coords[NearestIndex(data, coords)].led_number)

\* if frame.drivers.iter().any(|slot| slot.is_some()) { frames.push(frame) }
PushLastFrameNever(frs, frame) == frs

PushLastFrameAlways(frs, frame) == Append(frs, frame)

PushLastFrame(frs, frame) ==
    IF \E s \in 1..K : frame[s] # None
    THEN Append(frs, frame)
    ELSE frs

\* the passes of the for loop over raw_data from sample i on that fill one
\* frame: each puts a sample into the first empty slot, until the frame is
\* full or the input ends.  The result is the frame and the next sample.
RECURSIVE FillFrame(_, _, _, _)
FillFrame(raw, coords, i, frame) ==
    IF i > Len(raw) \/ IsFull(frame)
    THEN [frame |-> frame, next |-> i]
    ELSE FillFrame(raw, coords, i + 1,
                   InsertDriver(frame, ResolveSample(raw[i], coords)))

\* the for loop from sample i on, with the frames pushed so far: a frame that
\* got full is pushed and a new one begun; after the loop, the push of the
\* last frame
RECURSIVE BuildFrom(_, _, _, _)
BuildFrom(raw, coords, i, frs) ==
    LET filled == FillFrame(raw, coords, i, EmptyFrame)
    IN IF IsFull(filled.frame)
       THEN BuildFrom(raw, coords, filled.next, Append(frs, filled.frame))
       ELSE PushLastFrame(frs, filled.frame)

generate_update_frames(raw, coords) ==
    BuildFrom(raw, coords, 1, << >>)

(***************************************************************************)
(* Inputs of generate_update_frames                                        *)
(***************************************************************************)

\* longest generated sample list: two full frames and one more sample
MaxSamples == 41
\* largest step of a generated sample list through SamplePool
MaxStride == 2
\* every sample list up to this length is an input as well
MaxShort == 2

SamplePool == <<
    LocationData(4, 0, 1, 1),
    LocationData(5, 0, 1, 44),
    LocationData(5, 5, 2, 81),
    LocationData(6400, 40, 2, 99),
    LocationData(-3, -4, 3, 4) >>

PoolSize == Len(SamplePool)

ScenarioACoords == << LedCoordinate(0, 0, 1), LedCoordinate(10, 0, 2) >>

TieCoords ==
    << LedCoordinate(10, 0, 7), LedCoordinate(0, 0, 3), LedCoordinate(0, 10, 5) >>

\* n samples taken from SamplePool, from position start in steps of stride
Pattern(n, start, stride) ==
    [k \in 1..n |-> SamplePool[((start + (k - 1) * stride) % PoolSize) + 1]]

ShortInputs ==
    UNION {[1..n -> {SamplePool[i] : i \in 1..PoolSize}] : n \in 0..MaxShort}

FrameInputs ==
    {Pattern(n, start, stride) :
        n \in 0..MaxSamples, start \in 0..(PoolSize - 1), stride \in 0..MaxStride}
    \cup ShortInputs

\* the calls of generate_update_frames, as <<raw_data, coordinates>>: every
\* input with the two short coordinate lists, and the table of
\* read_coordinates with the short inputs and with one more sample than a
\* frame holds
FrameCalls ==
    (FrameInputs \X {ScenarioACoords, TieCoords})
    \cup
    ((ShortInputs \cup {Pattern(K + 1, start, 1) : start \in 0..(PoolSize - 1)})
        \X {read_coordinates})

(***************************************************************************)
(* PlotApp                                                                 *)
(***************************************************************************)

\* the wall clock moves in steps of TimeStep milliseconds up to MaxTime
TimeStep == 50
MaxTime == 400
\* playback is checked on frame sequences of 0..MaxFrames frames
MaxFrames == 5

\* led_states: HashMap<usize, Color32>, a function from LED numbers to colours
EmptyMap == [l \in {} |-> WHITE]

MapInsert(map, key, value) ==
    [l \in (DOMAIN map) \cup {key} |-> IF l = key THEN value ELSE map[l]]

\* self.driver_info.iter().find(|&d| d.number == n).map_or(WHITE, |d| d.color)
ColorOf(n) ==
    IF \E i \in 1..Len(driver_info) : driver_info[i].number = n
    THEN LET first == CHOOSE i \in 1..Len(driver_info) :
                        /\ driver_info[i].number = n
                        /\ \A j \in 1..(i - 1) : driver_info[j].number # n
         IN driver_info[first].color
    ELSE WHITE

\* for driver_data in &frame.drivers { if let Some(driver) = .. { insert } }
RECURSIVE InsertSlotsFrom(_, _, _)
InsertSlotsFrom(frame, s, map) ==
    IF s > K THEN map
    ELSE InsertSlotsFrom(frame, s + 1,
            IF frame[s] # None
            THEN MapInsert(map, frame[s][1].led_num, ColorOf(frame[s][1].driver_number))
            ELSE map)

\* update_led_states: the map after the call, and whether the index
\* self.frames[self.current_index - 1] was out of range (a panic).
\* The Rust index current_index - 1 is position current_index of the sequence.
IndexInRange(index, frs) == index - 1 < Len(frs)

update_led_states_unclear(index, frs) ==
    IF index > 0
    THEN IF IndexInRange(index, frs)
         THEN [map |-> InsertSlotsFrom(frs[index], 1, led_states), panic |-> FALSE]
         ELSE [map |-> led_states, panic |-> TRUE]
    ELSE [map |-> led_states, panic |-> FALSE]

update_led_states(index, frs) ==
    IF index > 0
    THEN IF IndexInRange(index, frs)
         THEN [map |-> InsertSlotsFrom(frs[index], 1, EmptyMap), panic |-> FALSE]
         ELSE [map |-> EmptyMap, panic |-> TRUE]
    ELSE [map |-> EmptyMap, panic |-> FALSE]

\* let mut next_index = self.current_index
LoopStartZero(index) == 0

LoopStart(index) == index

\* while next_index < self.frames.len()
\*       && next_index as f64 * frame_duration <= self.race_time
LoopCondUnbounded(next_index, n_frames, rt) ==
    next_index * update_rate_ms <= rt

LoopCondInclusive(next_index, n_frames, rt) ==
    next_index <= n_frames /\ next_index * update_rate_ms <= rt

LoopCondStrict(next_index, n_frames, rt) ==
    next_index < n_frames /\ next_index * update_rate_ms < rt

LoopCondStopsShort(next_index, n_frames, rt) ==
    next_index + 1 < n_frames /\ next_index * update_rate_ms <= rt

LoopCond(next_index, n_frames, rt) ==
    next_index < n_frames /\ next_index * update_rate_ms <= rt

RECURSIVE AdvanceIndex(_, _, _)
AdvanceIndex(next_index, n_frames, rt) ==
    IF LoopCond(next_index, n_frames, rt)
    THEN AdvanceIndex(next_index + 1, n_frames, rt)
    ELSE next_index

\* self.start_time.elapsed() * self.speed, in milliseconds
ElapsedRaceTimeUnscaled(t_now, t_start, spd) == t_now - t_start

ElapsedRaceTime(t_now, t_start, spd) == (t_now - t_start) * spd

\* PlotApp::update_race, called at the top of every App::update
update_race_unguarded ==
    /\ ~panicked
    /\ op' = "tick"
    /\ prev_index' = current_index
    /\ LET rt == ElapsedRaceTime(now, start_time, speed)
           next_index == AdvanceIndex(LoopStart(current_index), Len(frames), rt)
           leds == update_led_states(next_index, frames)
       IN /\ race_time' = rt
          /\ current_index' = next_index
          /\ led_states' = leds.map
          /\ panicked' = leds.panic
    /\ UNCHANGED <<frames, now, start_time, race_started, speed>>
    /\ UNCHANGED <<frameVars, fetchVars>>

update_race ==
    /\ ~panicked
    /\ op' = "tick"
    /\ prev_index' = current_index
    /\ IF race_started
       THEN LET rt == ElapsedRaceTime(now, start_time, speed)
                next_index == AdvanceIndex(LoopStart(current_index), Len(frames), rt)
                leds == update_led_states(next_index, frames)
            IN /\ race_time' = rt
               /\ current_index' = next_index
               /\ led_states' = leds.map
               /\ panicked' = leds.panic
       ELSE UNCHANGED <<race_time, current_index, led_states, panicked>>
    /\ UNCHANGED <<frames, now, start_time, race_started, speed>>
    /\ UNCHANGED <<frameVars, fetchVars>>

\* the START button of App::update
start ==
    /\ ~panicked
    /\ op' = "start"
    /\ prev_index' = current_index
    /\ race_started' = TRUE
    /\ start_time' = now
    /\ current_index' = 0
    /\ led_states' = EmptyMap
    /\ UNCHANGED <<frames, now, race_time, speed, panicked>>
    /\ UNCHANGED <<frameVars, fetchVars>>

\* PlotApp::reset, the state it leaves
ResetStateStale == [race_time |-> race_time, race_started |-> FALSE,
                    current_index |-> 0, led_states |-> led_states]

ResetState == [race_time |-> 0, race_started |-> FALSE, current_index |-> 0,
               led_states |-> EmptyMap]

\* the STOP button of App::update, which calls PlotApp::reset
reset_dropping_frames ==
    /\ ~panicked
    /\ op' = "stop"
    /\ prev_index' = current_index
    /\ start_time' = now
    /\ race_time' = ResetState.race_time
    /\ race_started' = ResetState.race_started
    /\ current_index' = ResetState.current_index
    /\ led_states' = ResetState.led_states
    /\ frames' = << >>
    /\ UNCHANGED <<now, speed, panicked>>
    /\ UNCHANGED <<frameVars, fetchVars>>

reset ==
    /\ ~panicked
    /\ op' = "stop"
    /\ prev_index' = current_index
    /\ start_time' = now
    /\ race_time' = ResetState.race_time
    /\ race_started' = ResetState.race_started
    /\ current_index' = ResetState.current_index
    /\ led_states' = ResetState.led_states
    /\ UNCHANGED <<frames, now, speed, panicked>>
    /\ UNCHANGED <<frameVars, fetchVars>>

\* the speed slider of App::update
set_speed ==
    /\ ~panicked
    /\ \E n \in SpeedMin..SpeedMax :
          /\ n # speed
          /\ speed' = n
    /\ op' = "set_speed"
    /\ prev_index' = current_index
    /\ UNCHANGED <<frames, now, start_time, race_time, race_started,
                   current_index, led_states, panicked>>
    /\ UNCHANGED <<frameVars, fetchVars>>

\* Instant::now() grows between two operations
AdvanceClock ==
    /\ ~panicked
    /\ now + TimeStep <= MaxTime
    /\ now' = now + TimeStep
    /\ UNCHANGED <<frames, start_time, race_time, race_started, current_index,
                   led_states, speed, panicked, op, prev_index>>
    /\ UNCHANGED <<frameVars, fetchVars>>

\* the sample lists the playback frame sequences are built from: none, and
\* for f = 1..MaxFrames the list that fills f - 1 frames and 7 slots of the next
PlayLengths == {0} \cup {(f - 1) * K + 7 : f \in 1..MaxFrames}

\* the k-th sample: the frames take turns between going round SamplePool and
\* repeating its third sample, so that consecutive frames light different LEDs
PlaySample(k) ==
    IF ((k - 1) \div K) % 2 = 0
    THEN SamplePool[((k - 1) % PoolSize) + 1]
    ELSE SamplePool[3]

PlaySamples(n) == [k \in 1..n |-> PlaySample(k)]

PlayFrameSequences ==
    {generate_update_frames(PlaySamples(n), TieCoords) : n \in PlayLengths}

\* values of the variables of the parts a specification does not run
IdleFrames ==
    /\ raw_data = << >>
    /\ coordinates = ScenarioACoords
    /\ out_frames = << >>
    /\ build_pc = "idle"

IdleFetch ==
    /\ driver_idx = 1
    /\ all_data = << >>
    /\ resp = "none"
    /\ body = << >>
    /\ fetch_pc = "idle"
    /\ main_pc = "idle"

IdlePlay ==
    /\ frames = << >>
    /\ now = 0
    /\ start_time = 0
    /\ race_time = 0
    /\ race_started = FALSE
    /\ current_index = 0
    /\ led_states = EmptyMap
    /\ speed = 1
    /\ panicked = FALSE
    /\ op = "idle"
    /\ prev_index = 0

\* PlotApp::new on the frames main built
InitPlay ==
    /\ frames \in PlayFrameSequences
    /\ now = 0
    /\ start_time = 0
    /\ race_time = 0
    /\ race_started = FALSE
    /\ current_index = 0
    /\ led_states = EmptyMap
    /\ speed = 1
    /\ panicked = FALSE
    /\ op = "new"
    /\ prev_index = 0
    /\ IdleFrames
    /\ IdleFetch

NextPlay == update_race \/ start \/ reset \/ set_speed \/ AdvanceClock

SpecPlay == InitPlay /\ [][NextPlay]_vars

\* Playback observed until it settles: the slider set, one START, then only
\* ticks while the clock runs in steps of LiveStep up to LiveMaxTime.  START
\* is pressed while the clock can still run past the end of the frames.
LiveStep == 100

LiveMaxTime == 700

StartOnce ==
    /\ ~race_started
    /\ now + Len(frames) * update_rate_ms + LiveStep <= LiveMaxTime
    /\ start

LiveClock ==
    /\ ~panicked
    /\ now + LiveStep <= LiveMaxTime
    /\ now' = now + LiveStep
    /\ UNCHANGED <<frames, start_time, race_time, race_started, current_index,
                   led_states, speed, panicked, op, prev_index>>
    /\ UNCHANGED <<frameVars, fetchVars>>

\* the slider is left alone once playback runs
SetSpeedBeforeStart ==
    /\ ~race_started
    /\ set_speed

NextLive == StartOnce \/ update_race \/ SetSpeedBeforeStart \/ LiveClock

\* App::update ends with ctx.request_repaint(), so update_race runs again and
\* again, and Instant::now() keeps growing
SpecLive ==
    /\ InitPlay
    /\ [][NextLive]_vars
    /\ WF_vars(update_race)
    /\ WF_vars(LiveClock)

\* the call of generate_update_frames
InitFrames ==
    /\ \E call \in FrameCalls :
          /\ raw_data = call[1]
          /\ coordinates = call[2]
    /\ out_frames = << >>
    /\ build_pc = "input"
    /\ IdleFetch
    /\ IdlePlay

Generate ==
    /\ build_pc = "input"
    /\ out_frames' = generate_update_frames(raw_data, coordinates)
    /\ build_pc' = "done"
    /\ UNCHANGED <<raw_data, coordinates>>
    /\ UNCHANGED <<fetchVars, playVars>>

NextFrames == Generate

SpecFrames == InitFrames /\ [][NextFrames]_vars

(***************************************************************************)
(* fetch_data and main                                                     *)
(***************************************************************************)

\* longest response body
MaxBody == 2

\* the server has samples for these two drivers, the first and the last of
\* driver_numbers, and an empty list for the others
DataDrivers == {driver_numbers[1], driver_numbers[Len(driver_numbers)]}

\* the samples a response for a driver is made of
FetchPool(driver) == {
    LocationData(0, 0, 1, driver),
    LocationData(0, 5, 2, driver),
    LocationData(5, 0, 1, driver),
    LocationData(3, 4, 2, driver),
    LocationData(6, 8, 1, driver),
    LocationData(1, 1, 2, driver) }

\* a response of a frame's worth of samples, the dates 3, 2, 1, 3, 2, 1, ..:
\* not in order, and each date several times
LongBody(driver) ==
    [k \in 1..K |-> LocationData(k, k + 1, 3 - ((k - 1) % 3), driver)]

Bodies(driver) ==
    IF driver \in DataDrivers
    THEN UNION {[1..n -> FetchPool(driver)] : n \in 0..MaxBody}
            \cup {LongBody(driver)}
    ELSE {<< >>}

\* .filter(|d| d.x != 0.0 && d.y != 0.0)
KeepsSample(d) == d.x # 0 /\ d.y # 0

\* all_data.sort_by_key(|d| d.date): slice::sort_by_key is a stable merge
\* sort.  Merging two sorted runs takes the next element of the left run
\* unless that of the right run has a strictly smaller key.
TakesLeftStrict(date_left, date_right) == date_left < date_right

TakesLeft(date_left, date_right) == date_left <= date_right

\* the merge of two sorted runs: an element keeps its place within its run
\* and moves back by the elements of the other run that are taken before it
MergeByDate(left, right) ==
    LET place_left(i) ==
            i + Cardinality({j \in 1..Len(right) :
                                ~TakesLeft(left[i].date, right[j].date)})
        place_right(j) ==
            j + Cardinality({i \in 1..Len(left) :
                                TakesLeft(left[i].date, right[j].date)})
    IN [p \in 1..(Len(left) + Len(right)) |->
           IF \E i \in 1..Len(left) : place_left(i) = p
           THEN left[CHOOSE i \in 1..Len(left) : place_left(i) = p]
           ELSE right[CHOOSE j \in 1..Len(right) : place_right(j) = p]]

\* the sorted data[lo..hi], by halves
RECURSIVE SortRange(_, _, _)
SortRange(data, lo, hi) ==
    IF lo > hi THEN << >>
    ELSE IF lo = hi THEN <<data[lo]>>
    ELSE LET mid == (lo + hi) \div 2
         IN MergeByDate(SortRange(data, lo, mid), SortRange(data, mid + 1, hi))

sort_skipped(data) == data

sort_by_date(data) == SortRange(data, 1, Len(data))

\* one pass of the for loop: the request for driver_numbers[driver_idx] got a
\* success status and a body that decodes
FetchSuccess ==
    /\ fetch_pc = "loop"
    /\ driver_idx <= Len(driver_numbers)
    /\ \E data \in Bodies(driver_numbers[driver_idx]) :
          /\ body' = data
          /\ all_data' = all_data \o SelectSeq(data, KeepsSample)
    /\ resp' = "ok"
    /\ driver_idx' = driver_idx + 1
    /\ UNCHANGED <<fetch_pc, main_pc>>
    /\ UNCHANGED <<frameVars, playVars>>

\* the request got a status that is not a success: 429 (rate limit) or
\* another one; the else branch prints and the loop goes on
FetchHttpFailure ==
    /\ fetch_pc = "loop"
    /\ driver_idx <= Len(driver_numbers)
    /\ \E status \in {429, 500} :
          resp' = IF status = 429 THEN "rate_limited" ELSE "http_error"
    /\ body' = << >>
    /\ driver_idx' = driver_idx + 1
    /\ UNCHANGED <<all_data, fetch_pc, main_pc>>
    /\ UNCHANGED <<frameVars, playVars>>

\* client.get(&url).send().await? : a transport error leaves fetch_data
FetchSendError ==
    /\ fetch_pc = "loop"
    /\ driver_idx <= Len(driver_numbers)
    /\ resp' = "send_error"
    /\ body' = << >>
    /\ fetch_pc' = "returned_err"
    /\ UNCHANGED <<driver_idx, all_data, main_pc>>
    /\ UNCHANGED <<frameVars, playVars>>

\* resp.json().await? : a body that does not decode leaves fetch_data
FetchDecodeError ==
    /\ fetch_pc = "loop"
    /\ driver_idx <= Len(driver_numbers)
    /\ resp' = "decode_error"
    /\ body' = << >>
    /\ fetch_pc' = "returned_err"
    /\ UNCHANGED <<driver_idx, all_data, main_pc>>
    /\ UNCHANGED <<frameVars, playVars>>

\* after the loop: sort and return Ok(all_data)
FetchReturn ==
    /\ fetch_pc = "loop"
    /\ driver_idx > Len(driver_numbers)
    /\ all_data' = sort_by_date(all_data)
    /\ fetch_pc' = "returned_ok"
    /\ UNCHANGED <<driver_idx, resp, body, main_pc>>
    /\ UNCHANGED <<frameVars, playVars>>

\* main: runtime.block_on(fetch_data())? returned Ok; the frames are built
\* and the application is created
MainBuild ==
    /\ main_pc = "fetching"
    /\ fetch_pc = "returned_ok"
    /\ frames' = generate_update_frames(all_data, read_coordinates)
    /\ op' = "new"
    /\ main_pc' = "running"
    /\ UNCHANGED <<now, start_time, race_time, race_started, current_index,
                   led_states, speed, panicked, prev_index>>
    /\ UNCHANGED <<driver_idx, all_data, resp, body, fetch_pc>>
    /\ UNCHANGED frameVars

\* main: runtime.block_on(fetch_data())? returned Err; main returns it
MainExit ==
    /\ main_pc = "fetching"
    /\ fetch_pc = "returned_err"
    /\ main_pc' = "exited_err"
    /\ UNCHANGED <<driver_idx, all_data, resp, body, fetch_pc>>
    /\ UNCHANGED <<frameVars, playVars>>

InitFetch ==
    /\ driver_idx = 1
    /\ all_data = << >>
    /\ resp = "none"
    /\ body = << >>
    /\ fetch_pc = "loop"
    /\ main_pc = "fetching"
    /\ IdleFrames
    /\ IdlePlay

NextFetch ==
    \/ FetchSuccess
    \/ FetchHttpFailure
    \/ FetchSendError
    \/ FetchDecodeError
    \/ FetchReturn
    \/ MainBuild
    \/ MainExit

SpecFetch == InitFetch /\ [][NextFetch]_vars

(***************************************************************************)
(* Properties of generate_update_frames (SpecFrames)                       *)
(***************************************************************************)

RECURSIVE OccupiedSlotsFrom(_, _)
OccupiedSlotsFrom(frs, f) ==
    IF f > Len(frs) THEN 0
    ELSE Cardinality(Occupied(frs[f])) + OccupiedSlotsFrom(frs, f + 1)

\* the occupied slots of the output, as <<frame, slot>>
OccupiedPositions ==
    {p \in (1..Len(out_frames)) \X (1..K) : out_frames[p[1]][p[2]] # None}

\* the place of an occupied slot when the output is read frame by frame and
\* slot by slot
Rank(p) ==
    Cardinality({q \in OccupiedPositions :
                    q[1] < p[1] \/ (q[1] = p[1] /\ q[2] <= p[2])})

\* C3: every output frame holds at most K assignments, and the number of
\* occupied slots over all output frames equals the number of input samples.
C3_NoSampleDropped ==
    build_pc = "done" =>
        /\ \A f \in 1..Len(out_frames) :
              /\ DOMAIN out_frames[f] = 1..K
              /\ Cardinality(Occupied(out_frames[f])) <= K
        /\ OccupiedSlotsFrom(out_frames, 1) = Len(raw_data)

\* more than two frames' worth of samples was split over three frames
C3_Witness ==
    /\ build_pc = "done"
    /\ Len(raw_data) = 2 * K + 1
    /\ Len(out_frames) = 3
    /\ Cardinality(Occupied(out_frames[3])) = 1

\* the coordinates at minimum distance from a sample
Nearest(data, coords) ==
    {i \in 1..Len(coords) :
        \A j \in 1..Len(coords) : DistanceSq(data, coords[i]) <= DistanceSq(data, coords[j])}

FirstNearest(data, coords) ==
    CHOOSE i \in Nearest(data, coords) : \A j \in Nearest(data, coords) : i <= j

\* C4: the LED number assigned to a sample is that of a coordinate at minimum
\* Euclidean distance from it, the first such coordinate of the list when
\* several are at the same minimum distance; positions {(0,0)#1, (10,0)#2}
\* and sample (4,0) give LED 1.
C4_NearestFirstOnTie ==
    build_pc = "done" =>
        \A p \in OccupiedPositions :
            LET k == Rank(p)
                assigned == out_frames[p[1]][p[2]][1]
            IN /\ k <= Len(raw_data)
               /\ assigned.driver_number = raw_data[k].driver_number
               /\ assigned.led_num =
                     coordinates[FirstNearest(raw_data[k], coordinates)].led_number
               /\ (coordinates = ScenarioACoords /\ raw_data[k].x = 4 /\ raw_data[k].y = 0)
                     => assigned.led_num = 1

\* a sample with several coordinates at the same minimum distance got the
\* LED number of the first of them
C4_Witness ==
    /\ build_pc = "done"
    /\ \E p \in OccupiedPositions :
          LET k == Rank(p)
              near == Nearest(raw_data[k], coordinates)
          IN /\ \E i, j \in near :
                   i < j /\ coordinates[i].led_number # coordinates[j].led_number
             /\ out_frames[p[1]][p[2]][1].led_num =
                   coordinates[FirstNearest(raw_data[k], coordinates)].led_number

\* the assignments the input resolves to: sample k with the LED number of the
\* first coordinate at minimum distance
Assignments(raw, coords) ==
    [k \in 1..Len(raw) |->
        DriverData(raw[k].driver_number,
                   coords[FirstNearest(raw[k], coords)].led_number)]

\* The specified frame builder.  An assignment goes into the first empty slot
\* of the open frame; when all K slots are occupied the assignment cannot be
\* placed: the open frame is sealed and a fresh one takes the assignment.
\* After the input, an open frame with at least one assignment is sealed and
\* an empty one is discarded.
SpecifiedPlace(frame, a) ==
    LET first == CHOOSE s \in 1..K :
                    /\ frame[s] = None
                    /\ \A t \in 1..(s - 1) : frame[t] # None
    IN [frame EXCEPT ![first] = Some(a)]

\* the open frame after the assignments from i on that can be placed, and the
\* first assignment that cannot (Len + 1 when all were placed)
RECURSIVE SpecifiedFill(_, _, _)
SpecifiedFill(assigned, i, frame) ==
    IF i > Len(assigned) \/ Occupied(frame) = 1..K
    THEN [frame |-> frame, pending |-> i]
    ELSE SpecifiedFill(assigned, i + 1, SpecifiedPlace(frame, assigned[i]))

RECURSIVE SpecifiedSealFrom(_, _, _)
SpecifiedSealFrom(assigned, i, sealed) ==
    LET open == SpecifiedFill(assigned, i, EmptyFrame)
    IN IF open.pending <= Len(assigned)
       THEN SpecifiedSealFrom(assigned, open.pending, Append(sealed, open.frame))
       ELSE IF Occupied(open.frame) # {}
            THEN Append(sealed, open.frame)
            ELSE sealed

SpecifiedFrames(assigned) == SpecifiedSealFrom(assigned, 1, << >>)

\* C11: generate_update_frames, which seals a frame as soon as its last slot
\* is filled, returns exactly the frames of the specified builder, which seals
\* when the next assignment cannot be placed and flushes a non-empty open
\* frame at the end; no output frame is empty, also for an empty input and an
\* input of a multiple of K samples; K + 1 assignments give one frame with the
\* first K and a second frame with the last one.
C11_SameAsSpecifiedBuilder ==
    build_pc = "done" =>
        /\ out_frames = SpecifiedFrames(Assignments(raw_data, coordinates))
        /\ \A f \in 1..Len(out_frames) : Occupied(out_frames[f]) # {}
        /\ Len(raw_data) = 0 => out_frames = << >>
        /\ Len(raw_data) = K + 1 =>
              /\ Len(out_frames) = 2
              /\ Occupied(out_frames[1]) = 1..K
              /\ Occupied(out_frames[2]) = {1}

\* an input of exactly two frames' worth of samples gave two full frames
C11_Witness ==
    /\ build_pc = "done"
    /\ Len(raw_data) = 2 * K
    /\ Len(out_frames) = 2
    /\ Occupied(out_frames[2]) = 1..K

(***************************************************************************)
(* Properties of fetch_data and main (SpecFetch)                           *)
(***************************************************************************)

\* the sentinel origin
IsOrigin(d) == d.x = 0 /\ d.y = 0

NotOrigin(d) == ~IsOrigin(d)

\* C5: a sample of a successful response is dropped if and only if it is at
\* the origin (x = 0 and y = 0); every other sample of the body, also one with
\* exactly one coordinate equal to 0, is appended to all_data.
C5_DropsOnlyOrigin ==
    [][(fetch_pc = "loop" /\ resp' = "ok" /\ driver_idx' = driver_idx + 1) =>
          all_data' = all_data \o SelectSeq(body', NotOrigin)]_vars

\* C6: a request that gets a rate-limit response is sent again (after a
\* backoff delay) before the loop goes on to the next driver: the pass that
\* handles the first rate-limit response of a request keeps the loop on it.
C6_RetriesRateLimited ==
    [][(fetch_pc = "loop" /\ resp' = "rate_limited" /\ fetch_pc' = "loop") =>
          driver_idx' = driver_idx]_vars

\* C7: no failed request (a status that is not a success, a transport error
\* on send, a body that does not decode) ends fetch_data with an error or
\* ends the program: the loop goes on and fetch_data returns Ok.
C7_FailureAbandonsOneEntity ==
    (resp \in {"rate_limited", "http_error", "send_error", "decode_error"}) =>
        /\ fetch_pc # "returned_err"
        /\ main_pc # "exited_err"

\* the occupied slots of a frame sequence, as <<frame, slot>>
PositionsOf(frs) ==
    {p \in (1..Len(frs)) \X (1..K) : frs[p[1]][p[2]] # None}

\* p comes before q when the frames are read frame by frame, slot by slot
Before(p, q) == p[1] < q[1] \/ (p[1] = q[1] /\ p[2] < q[2])

\* the place of an occupied slot in that reading
RankIn(frs, p) == 1 + Cardinality({q \in PositionsOf(frs) : Before(q, p)})

\* C12: in the frames built from what fetch_data returned, the occupied slots
\* read frame by frame and slot by slot are the returned samples one by one,
\* and their timestamps never decrease: no slot of an earlier frame, or an
\* earlier slot of the same frame, holds a sample later than one after it.
C12_FramesInTimeOrder ==
    main_pc = "running" =>
        /\ Cardinality(PositionsOf(frames)) = Len(all_data)
        /\ \A p \in PositionsOf(frames) :
              frames[p[1]][p[2]][1].driver_number
                  = all_data[RankIn(frames, p)].driver_number
        /\ \A p, q \in PositionsOf(frames) :
              Before(p, q) =>
                  all_data[RankIn(frames, p)].date <= all_data[RankIn(frames, q)].date

\* two frames or more, holding a sample of the last driver before a later
\* sample of the first driver, which was fetched before it
C12_Witness ==
    /\ main_pc = "running"
    /\ Len(frames) >= 2
    /\ \E p, q \in PositionsOf(frames) :
          /\ p[1] < q[1]
          /\ frames[p[1]][p[2]][1].driver_number = driver_numbers[Len(driver_numbers)]
          /\ frames[q[1]][q[2]][1].driver_number = driver_numbers[1]
          /\ all_data[RankIn(frames, p)].date < all_data[RankIn(frames, q)].date

\* the samples of a list that have a given timestamp, in the order of the list
WithDate(data, t) == SelectSeq(data, LAMBDA d : d.date = t)

DatesOf(data) == {data[i].date : i \in 1..Len(data)}

\* C13: fetch_data accumulates the samples in fetch order (a response adds
\* samples of its body, in the order of the body, after those of the drivers
\* before it) and returns them sorted by ascending timestamp, the samples of
\* one timestamp in the order they were accumulated in.
C13_SortedStable ==
    [][/\ (fetch_pc = "loop" /\ resp' = "ok" /\ driver_idx' = driver_idx + 1) =>
             /\ SubSeq(all_data', 1, Len(all_data)) = all_data
             /\ LET added == SubSeq(all_data', Len(all_data) + 1, Len(all_data'))
                    kept == {added[i] : i \in 1..Len(added)}
                IN added = SelectSeq(body', LAMBDA d : d \in kept)
       /\ (fetch_pc = "loop" /\ fetch_pc' = "returned_ok") =>
             /\ Len(all_data') = Len(all_data)
             /\ \A i \in 1..(Len(all_data') - 1) :
                   all_data'[i].date <= all_data'[i + 1].date
             /\ \A t \in DatesOf(all_data) :
                   WithDate(all_data', t) = WithDate(all_data, t)]_vars

\* returned: two samples of one timestamp, that of the first driver before
\* that of the last, and an earlier sample of the last driver before a later
\* one of the first
C13_Witness ==
    /\ fetch_pc = "returned_ok"
    /\ \E i, j \in 1..Len(all_data) :
          /\ i < j
          /\ all_data[i].date = all_data[j].date
          /\ all_data[i].driver_number = driver_numbers[1]
          /\ all_data[j].driver_number = driver_numbers[Len(driver_numbers)]
    /\ \E i, j \in 1..Len(all_data) :
          /\ i < j
          /\ all_data[i].date < all_data[j].date
          /\ all_data[i].driver_number = driver_numbers[Len(driver_numbers)]
          /\ all_data[j].driver_number = driver_numbers[1]

(***************************************************************************)
(* Properties of PlotApp (SpecPlay)                                        *)
(***************************************************************************)

\* floor(elapsed_race_time / frame_duration)
TargetIndex(rt) == rt \div update_rate_ms

\* C1 as stated: after every tick while Running, current_index is
\* min(floor(elapsed_race_time / frame_duration), frame_count - 1) when there
\* are frames and 0 when there are none.
C1_Original ==
    (op = "tick" /\ race_started) =>
        current_index = IF Len(frames) > 0
                        THEN Min(TargetIndex(race_time), Len(frames) - 1)
                        ELSE 0

\* C1 amended: a tick while Running sets elapsed_race_time to the wall-clock
\* time since start times speed, and current_index to the larger of its
\* previous value and min(floor(elapsed_race_time / frame_duration) + 1,
\* frame_count), which is 0 when there are no frames.
C1_TickIndex ==
    [][(update_race /\ race_started) =>
          /\ race_time' = (now - start_time) * speed
          /\ current_index' =
                Max(current_index,
                    Min(TargetIndex(race_time') + 1, Len(frames)))]_vars

\* speed 1, 5 or more frames, 0.3 s <= elapsed < 0.4 s: current_index is 4
C1_Witness ==
    /\ op = "tick"
    /\ race_started
    /\ speed = 1
    /\ Len(frames) >= 5
    /\ race_time >= 300
    /\ race_time < 400
    /\ race_time = now - start_time
    /\ current_index = 4

\* C2 as stated: in a step taken while Running, current_index does not
\* decrease unless the step is a stop.
C2_Original ==
    [][(race_started /\ ~reset) => current_index' >= current_index]_vars

\* C2 amended: in a step taken while Running, current_index does not decrease
\* unless the step is a stop or a start; it goes back to 0 only by a stop or
\* a start.
C2_MonotoneUnlessStopOrStart ==
    [][/\ (race_started /\ ~reset /\ ~start) => current_index' >= current_index
       /\ (current_index' < current_index) =>
              ((reset \/ start) /\ current_index' = 0)]_vars

\* START pressed while Running, with frames already played
C2_Witness ==
    /\ op = "start"
    /\ race_started
    /\ prev_index > 0
    /\ current_index = 0

\* C8: a stop issued in any state leaves playback Stopped with
\* current_index = 0, elapsed race time = 0 and led_states empty.
C8_StopClearsAll ==
    op = "stop" =>
        /\ ~race_started
        /\ current_index = 0
        /\ race_time = 0
        /\ led_states = EmptyMap

\* a stop issued while frames were being played
C8_Witness ==
    /\ op = "stop"
    /\ prev_index > 0
    /\ ~race_started
    /\ current_index = 0

\* C9: in every reachable playback state 0 <= current_index <= number of
\* frames, and the lookup frames[current_index - 1] never went out of range.
C9_IndexInBounds ==
    /\ current_index >= 0
    /\ current_index <= Len(frames)
    /\ ~panicked

\* a tick long after the last frame was reached
C9_Witness ==
    /\ op = "tick"
    /\ race_started
    /\ Len(frames) >= 1
    /\ race_time > Len(frames) * update_rate_ms
    /\ current_index = Len(frames)

\* C10: with no frames, a tick while Running leaves current_index at 0 and
\* the LED colour mapping empty, and does not fail.
C10_EmptyFramesTick ==
    (Len(frames) = 0 /\ op = "tick" /\ race_started) =>
        /\ current_index = 0
        /\ led_states = EmptyMap
        /\ ~panicked

\* a tick while Running on an empty frame sequence, time having passed at a
\* raised speed
C10_Witness ==
    /\ Len(frames) = 0
    /\ op = "tick"
    /\ race_started
    /\ speed > 1
    /\ race_time > 0
    /\ current_index = 0

\* C14: the first tick after a speed change while Running computes the
\* elapsed race time as the wall-clock time since the start times the new
\* speed, whether the speed went up or down and whatever it was before; for
\* one wall-clock time, twice the speed gives twice the elapsed race time.
C14_SpeedScalesElapsed ==
    [][(op = "set_speed" /\ race_started /\ update_race) =>
          /\ race_time' = (now - start_time) * speed
          /\ \A s \in SpeedMin..SpeedMax :
                2 * s <= SpeedMax =>
                    ElapsedRaceTime(now, start_time, 2 * s)
                        = 2 * ElapsedRaceTime(now, start_time, s)]_vars

\* after a tick while Running at a speed above 1, the elapsed race time is
\* the wall-clock time times the speed and lies before the frame shown: the
\* speed was lowered
C14_Witness ==
    /\ op = "tick"
    /\ race_started
    /\ speed > 1
    /\ now > start_time
    /\ race_time = (now - start_time) * speed
    /\ TargetIndex(race_time) + 1 < current_index

\* C15: the frame sequence is complete when playback begins, and no playback
\* operation changes its length or any frame: every frame keeps its K slots
\* and its content.
C15_FramesNeverChange ==
    [][/\ frames' = frames
       /\ \A i \in 1..Len(frames') : DOMAIN frames'[i] = 1..K]_vars

\* a stop after the last of several frames was shown
C15_Witness ==
    /\ op = "stop"
    /\ Len(frames) >= 2
    /\ prev_index = Len(frames)
    /\ Occupied(frames[Len(frames)]) # {}

\* C16: a tick while Stopped is a no-op: it leaves current_index = 0, the
\* elapsed race time = 0 and the LED colour mapping empty, and playback
\* Stopped, whatever the wall-clock time and the speed.
C16_StoppedTickNoOp ==
    [][(~race_started /\ update_race) =>
          /\ ~race_started'
          /\ current_index' = 0
          /\ race_time' = 0
          /\ led_states' = EmptyMap]_vars

\* a tick while Stopped, after a stop, with time passed since and the speed
\* raised
C16_Witness ==
    /\ op = "tick"
    /\ ~race_started
    /\ start_time > 0
    /\ now > start_time
    /\ speed > 1
    /\ current_index = 0

\* the slots of a frame that name an LED
SlotsNaming(frame, led) == {s \in Occupied(frame) : frame[s][1].led_num = led}

\* the last of them
LastSlotNaming(frame, led) ==
    CHOOSE s \in SlotsNaming(frame, led) : \A u \in SlotsNaming(frame, led) : u <= s

\* the roster colour of a driver, white for a driver not in the roster
IsRosterColour(n, colour) ==
    \/ \E i \in 1..Len(driver_info) :
          driver_info[i].number = n /\ driver_info[i].color = colour
    \/ /\ \A i \in 1..Len(driver_info) : driver_info[i].number # n
       /\ colour = WHITE

\* C17: after a tick while Running with current_index >= 1, the LED colour
\* mapping is derived from the active frame alone: its keys are the LED
\* numbers of the occupied slots of that frame, each mapped to the roster
\* colour of the driver in the last slot naming the LED (white for a driver
\* not in the roster); nothing of an earlier frame remains.
C17_LedsFromActiveFrame ==
    (op = "tick" /\ race_started /\ current_index >= 1 /\ ~panicked) =>
        LET frame == frames[current_index]
        IN /\ DOMAIN led_states =
                 {frame[s][1].led_num : s \in Occupied(frame)}
           /\ \A led \in DOMAIN led_states :
                 IsRosterColour(
                     frame[LastSlotNaming(frame, led)][1].driver_number,
                     led_states[led])

\* a tick that moved on from a frame lighting an LED the active frame does
\* not light; the active frame names its LED in several slots
C17_Witness ==
    /\ op = "tick"
    /\ race_started
    /\ prev_index >= 1
    /\ current_index > prev_index
    /\ \E s \in Occupied(frames[prev_index]) :
          frames[prev_index][s][1].led_num \notin DOMAIN led_states
    /\ \E led \in DOMAIN led_states :
          Cardinality(SlotsNaming(frames[current_index], led)) >= 2

\* C18: a tick while Running leaves current_index at the larger of its
\* previous value and min(floor(elapsed_race_time / frame_duration) + 1,
\* frame_count); so with a frame or more the first tick after start makes it
\* 1 or more, and after the speed was lowered it stays where it was until the
\* elapsed race time catches up.
C18_IndexIsMaxOfPrevAndTarget ==
    (op = "tick" /\ race_started) =>
        /\ current_index =
              Max(prev_index, Min(TargetIndex(race_time) + 1, Len(frames)))
        /\ Len(frames) >= 1 => current_index >= 1
        /\ race_time < (prev_index - 1) * update_rate_ms =>
              current_index = prev_index

\* a tick that kept the index although the elapsed race time lies before the
\* frame shown
C18_Witness ==
    /\ op = "tick"
    /\ race_started
    /\ prev_index = current_index
    /\ current_index >= 2
    /\ race_time < (current_index - 1) * update_rate_ms
    /\ current_index < Len(frames)

\* C19: once playback is started and only ticks follow while the clock
\* advances, current_index reaches the number of frames and stays there, the
\* elapsed race time ends up past the end of the frames, and playback stays
\* Running.
C19_ReachesLastFrameAndStays ==
    /\ [](race_started =>
            <>[](/\ race_started
                 /\ current_index = Len(frames)
                 /\ race_time >= Len(frames) * update_rate_ms))
    /\ [][race_started => race_started']_vars

\* a tick that found the index at the number of frames and left it there,
\* the elapsed race time past the end of the frames
C19_Witness ==
    /\ op = "tick"
    /\ race_started
    /\ Len(frames) >= 2
    /\ prev_index = Len(frames)
    /\ current_index = Len(frames)
    /\ race_time > Len(frames) * update_rate_ms
    /\ now = LiveMaxTime

====
